---- MODULE Spec2Model ----
(***************************************************************************)
(* State-machine model of the interactive chessboard application a.py:     *)
(* the module globals (board, selection, move history, evaluation cache),  *)
(* the main event loop, try_make_move, prompt_promotion, compute_winrate   *)
(* and the shutdown sequence.  The chess.Board operations the program      *)
(* calls (piece_at, legal_moves, push, pop, fen, turn) are modelled by the *)
(* operators of the first sections.                                        *)
(***************************************************************************)
EXTENDS Integers, Sequences, FiniteSets, TLC

(***************************************************************************)
(* Squares, colours and piece kinds as the chess package numbers them.     *)
(***************************************************************************)
None == -1

WHITE == TRUE
BLACK == FALSE

PAWN == 1
KNIGHT == 2
BISHOP == 3
ROOK == 4
QUEEN == 5
KING == 6

\* A piece is its kind for White and its kind + 8 for Black; 0 is an empty square.
EMPTY == 0
BlackOffset == 8

Piece(piece_type, color) == IF color = WHITE THEN piece_type ELSE piece_type + BlackOffset

piece_type_of(p) == p % BlackOffset

color_of(p) == p < BlackOffset

SQUARES == 0 .. 63

square(file, rank) == rank * 8 + file

square_file(sq) == sq % 8

square_rank(sq) == sq \div 8

OnBoard(file, rank) == file >= 0 /\ file <= 7 /\ rank >= 0 /\ rank <= 7

A1 == square(0, 0)
C1 == square(2, 0)
D1 == square(3, 0)
E1 == square(4, 0)
F1 == square(5, 0)
G1 == square(6, 0)
H1 == square(7, 0)
A8 == square(0, 7)
C8 == square(2, 7)
D8 == square(3, 7)
E8 == square(4, 7)
F8 == square(5, 7)
G8 == square(6, 7)
H8 == square(7, 7)

(***************************************************************************)
(* chess.Move: origin, destination and optional promotion piece kind.      *)
(***************************************************************************)
Move(from_square, to_square, promotion) ==
    [from_square |-> from_square, to_square |-> to_square, promotion |-> promotion]

(***************************************************************************)
(* chess.Board(): the starting position, with empty stacks.                *)
(***************************************************************************)
BackRank == <<ROOK, KNIGHT, BISHOP, QUEEN, KING, BISHOP, KNIGHT, ROOK>>

StartPieces ==
    [sq \in SQUARES |->
        CASE square_rank(sq) = 0 -> Piece(BackRank[square_file(sq) + 1], WHITE)
          [] square_rank(sq) = 1 -> Piece(PAWN, WHITE)
          [] square_rank(sq) = 6 -> Piece(PAWN, BLACK)
          [] square_rank(sq) = 7 -> Piece(BackRank[square_file(sq) + 1], BLACK)
          [] OTHER -> EMPTY]

Board ==
    [pieces |-> StartPieces,
     turn |-> WHITE,
     castling_rights |-> {A1, H1, A8, H8},
     ep_square |-> None,
     halfmove_clock |-> 0,
     fullmove_number |-> 1,
     move_stack |-> <<>>,
     stack |-> <<>>]

piece_at(b, sq) == b.pieces[sq]

(***************************************************************************)
(* Attack geometry.                                                        *)
(***************************************************************************)
KnightDeltas == {<<1, 2>>, <<2, 1>>, <<2, -1>>, <<1, -2>>,
                 <<-1, -2>>, <<-2, -1>>, <<-2, 1>>, <<-1, 2>>}

KingDeltas == {<<1, 0>>, <<1, 1>>, <<0, 1>>, <<-1, 1>>,
               <<-1, 0>>, <<-1, -1>>, <<0, -1>>, <<1, -1>>}

RookDirs == {<<1, 0>>, <<-1, 0>>, <<0, 1>>, <<0, -1>>}

BishopDirs == {<<1, 1>>, <<1, -1>>, <<-1, 1>>, <<-1, -1>>}

StepAttacks(sq, deltas) ==
    {square(square_file(sq) + d[1], square_rank(sq) + d[2]) :
        d \in {e \in deltas : OnBoard(square_file(sq) + e[1], square_rank(sq) + e[2])}}

\* The squares a pawn of the given colour standing on sq attacks.
PawnAttacks(sq, color) ==
    StepAttacks(sq, IF color = WHITE THEN {<<-1, 1>>, <<1, 1>>} ELSE {<<-1, -1>>, <<1, -1>>})

\* The squares seen from (file, rank) in one direction, up to and including the
\* first occupied square.
RECURSIVE Slide(_, _, _, _, _)
Slide(pieces, file, rank, df, dr) ==
    IF ~OnBoard(file + df, rank + dr) THEN {}
    ELSE IF pieces[square(file + df, rank + dr)] # EMPTY
         THEN {square(file + df, rank + dr)}
         ELSE {square(file + df, rank + dr)} \cup Slide(pieces, file + df, rank + dr, df, dr)

SlideAttacks(pieces, sq, dirs) ==
    UNION {Slide(pieces, square_file(sq), square_rank(sq), d[1], d[2]) : d \in dirs}

\* Board.attacks_mask: the squares attacked by the piece standing on sq.
attacks(pieces, sq) ==
    CASE piece_type_of(pieces[sq]) = PAWN -> PawnAttacks(sq, color_of(pieces[sq]))
      [] piece_type_of(pieces[sq]) = KNIGHT -> StepAttacks(sq, KnightDeltas)
      [] piece_type_of(pieces[sq]) = KING -> StepAttacks(sq, KingDeltas)
      [] piece_type_of(pieces[sq]) = BISHOP -> SlideAttacks(pieces, sq, BishopDirs)
      [] piece_type_of(pieces[sq]) = ROOK -> SlideAttacks(pieces, sq, RookDirs)
      [] piece_type_of(pieces[sq]) = QUEEN -> SlideAttacks(pieces, sq, RookDirs \cup BishopDirs)
      [] OTHER -> {}

\* Board.is_attacked_by: some piece of the colour attacks sq.
is_attacked_by(pieces, color, sq) ==
    \/ \E s \in StepAttacks(sq, KnightDeltas) : pieces[s] = Piece(KNIGHT, color)
    \/ \E s \in StepAttacks(sq, KingDeltas) : pieces[s] = Piece(KING, color)
    \/ \E s \in PawnAttacks(sq, ~color) : pieces[s] = Piece(PAWN, color)
    \/ \E s \in SlideAttacks(pieces, sq, RookDirs) :
          pieces[s] \in {Piece(ROOK, color), Piece(QUEEN, color)}
    \/ \E s \in SlideAttacks(pieces, sq, BishopDirs) :
          pieces[s] \in {Piece(BISHOP, color), Piece(QUEEN, color)}

king(pieces, color) == CHOOSE sq \in SQUARES : pieces[sq] = Piece(KING, color)

(***************************************************************************)
(* Castling rights and castling moves (standard chess, not Chess960).      *)
(***************************************************************************)
BackRankOf(color) == IF color = WHITE THEN 0 ELSE 7

\* Board.clean_castling_rights: the rights whose rook and king still stand
\* on their original squares.
clean_castling_rights(b) ==
    {r \in b.castling_rights :
        /\ b.pieces[r] = Piece(ROOK, square_rank(r) = 0)
        /\ b.pieces[IF square_rank(r) = 0 THEN E1 ELSE E8] = Piece(KING, square_rank(r) = 0)}

\* Board._from_chess960: a king move from its home square onto the corner
\* rook is read as the castling move to the g- or c-file.
from_chess960(b, m) ==
    IF m.promotion = None /\ m.from_square \in {E1, E8}
       /\ piece_type_of(b.pieces[m.from_square]) = KING
       /\ m.to_square = m.from_square + 3
    THEN Move(m.from_square, m.from_square + 2, None)
    ELSE IF m.promotion = None /\ m.from_square \in {E1, E8}
            /\ piece_type_of(b.pieces[m.from_square]) = KING
            /\ m.to_square = m.from_square - 4
         THEN Move(m.from_square, m.from_square - 2, None)
         ELSE m

\* Board._to_chess960: the castling move to the g- or c-file is pushed as the
\* king moving onto the corner rook.
to_chess960(b, m) ==
    IF m.from_square \in {E1, E8} /\ piece_type_of(b.pieces[m.from_square]) = KING
       /\ m.to_square = m.from_square + 2
       /\ piece_type_of(b.pieces[m.to_square]) # ROOK
    THEN Move(m.from_square, m.from_square + 3, m.promotion)
    ELSE IF m.from_square \in {E1, E8} /\ piece_type_of(b.pieces[m.from_square]) = KING
            /\ m.to_square = m.from_square - 2
            /\ piece_type_of(b.pieces[m.to_square]) # ROOK
         THEN Move(m.from_square, m.from_square - 4, m.promotion)
         ELSE m

\* Board.generate_castling_moves: the king stands on its home square, the
\* right is still held, the squares between king and rook are empty, and the
\* king is neither in check nor passes or lands on an attacked square.
CastlingAllowed(b, rook_sq) ==
    LET color == b.turn
        ksq == square(4, BackRankOf(color))
        a_side == rook_sq < ksq
        king_to == IF a_side THEN ksq - 2 ELSE ksq + 2
        rook_to == IF a_side THEN ksq - 1 ELSE ksq + 1
        between == IF a_side THEN {ksq - 1, ksq - 2, ksq - 3} ELSE {ksq + 1, ksq + 2}
        no_king == [b.pieces EXCEPT ![ksq] = EMPTY]
        castled == [b.pieces EXCEPT ![ksq] = EMPTY, ![rook_sq] = EMPTY,
                                    ![rook_to] = Piece(ROOK, color)]
    IN /\ rook_sq \in clean_castling_rights(b)
       /\ square_rank(rook_sq) = BackRankOf(color)
       /\ \A s \in between : b.pieces[s] = EMPTY
       /\ ~is_attacked_by(no_king, ~color, ksq)
       /\ ~is_attacked_by(no_king, ~color, rook_to)
       /\ ~is_attacked_by(castled, ~color, king_to)

generate_castling_moves(b) ==
    {Move(square(4, BackRankOf(b.turn)),
          IF r < square(4, BackRankOf(b.turn)) THEN square(2, BackRankOf(b.turn))
                                               ELSE square(6, BackRankOf(b.turn)),
          None) :
        r \in {x \in {square(0, BackRankOf(b.turn)), square(7, BackRankOf(b.turn))} :
                  CastlingAllowed(b, x)}}

(***************************************************************************)
(* Pseudo-legal and legal moves.                                           *)
(***************************************************************************)
PromotionPieces == {QUEEN, ROOK, BISHOP, KNIGHT}

\* The pawn part of Board.generate_pseudo_legal_moves and
\* generate_pseudo_legal_ep, as a membership test.
is_pseudo_legal_pawn(b, m) ==
    LET color == b.turn
        from == m.from_square
        to == m.to_square
        fwd == IF color = WHITE THEN 8 ELSE -8
        promo_ok == IF square_rank(to) \in {0, 7} THEN m.promotion \in PromotionPieces
                                                  ELSE m.promotion = None
    IN \/ /\ to \in PawnAttacks(from, color)
          /\ b.pieces[to] # EMPTY
          /\ color_of(b.pieces[to]) # color
          /\ promo_ok
       \/ /\ to = from + fwd
          /\ b.pieces[to] = EMPTY
          /\ promo_ok
       \/ /\ to = from + 2 * fwd
          /\ square_rank(from) = (IF color = WHITE THEN 1 ELSE 6)
          /\ b.pieces[from + fwd] = EMPTY
          /\ b.pieces[to] = EMPTY
          /\ m.promotion = None
       \/ /\ b.ep_square # None
          /\ to = b.ep_square
          /\ b.pieces[to] = EMPTY
          /\ to \in PawnAttacks(from, color)
          /\ square_rank(from) = (IF color = WHITE THEN 4 ELSE 3)
          /\ m.promotion = None

\* Board.is_castling.
is_castling(b, m) ==
    /\ piece_type_of(b.pieces[m.from_square]) = KING
    /\ \/ square_file(m.from_square) - square_file(m.to_square) > 1
       \/ square_file(m.to_square) - square_file(m.from_square) > 1
       \/ b.pieces[m.to_square] = Piece(ROOK, b.turn)

\* Board.is_en_passant.
is_en_passant(b, m) ==
    /\ b.ep_square # None
    /\ b.ep_square = m.to_square
    /\ piece_type_of(b.pieces[m.from_square]) = PAWN
    /\ square_file(m.from_square) # square_file(m.to_square)
    /\ b.pieces[m.to_square] = EMPTY

\* Board.is_pseudo_legal.
is_pseudo_legal(b, m) ==
    LET p == b.pieces[m.from_square]
    IN /\ p # EMPTY
       /\ color_of(p) = b.turn
       /\ m.promotion # None =>
             /\ piece_type_of(p) = PAWN
             /\ square_rank(m.to_square) = (IF b.turn = WHITE THEN 7 ELSE 0)
       /\ IF piece_type_of(p) = KING /\ from_chess960(b, m) \in generate_castling_moves(b)
          THEN TRUE
          ELSE /\ ~(b.pieces[m.to_square] # EMPTY /\ color_of(b.pieces[m.to_square]) = b.turn)
               /\ IF piece_type_of(p) = PAWN
                  THEN is_pseudo_legal_pawn(b, m)
                  ELSE m.to_square \in attacks(b.pieces, m.from_square)

\* The placement after a move that is not a castling move: the piece leaves
\* its square, a pawn taken en passant is removed, and the moved (or
\* promoted) piece lands on the destination.
PiecesAfterPlain(b, m) ==
    LET p == b.pieces[m.from_square]
        landed == IF m.promotion # None THEN Piece(m.promotion, b.turn) ELSE p
        down == IF b.turn = WHITE THEN -8 ELSE 8
    IN IF is_en_passant(b, m)
       THEN [b.pieces EXCEPT ![m.from_square] = EMPTY, ![m.to_square] = landed,
                             ![b.ep_square + down] = EMPTY]
       ELSE [b.pieces EXCEPT ![m.from_square] = EMPTY, ![m.to_square] = landed]

\* The placement after a castling move given as king-onto-rook.
PiecesAfterCastling(b, m) ==
    LET a_side == square_file(m.to_square) < square_file(m.from_square)
        rank == BackRankOf(b.turn)
    IN [b.pieces EXCEPT ![m.from_square] = EMPTY, ![m.to_square] = EMPTY,
                        ![square(IF a_side THEN 2 ELSE 6, rank)] = Piece(KING, b.turn),
                        ![square(IF a_side THEN 3 ELSE 5, rank)] = Piece(ROOK, b.turn)]

\* Board.is_into_check: the move leaves or puts the mover's king in check.
is_into_check(b, m) ==
    IF is_castling(b, m) THEN FALSE
    ELSE LET after == PiecesAfterPlain(b, m)
         IN is_attacked_by(after, ~b.turn, king(after, b.turn))

\* Board.is_legal, which decides "move in board.legal_moves".
is_legal(b, m) == is_pseudo_legal(b, m) /\ ~is_into_check(b, m)

\* Board.generate_legal_moves, which "list(board.legal_moves)" collects.  The
\* candidates are the geometric targets of each piece of the side to move;
\* castling is generated as the king's move to the g- or c-file.
Candidates(b, from) ==
    LET p == b.pieces[from]
        fwd == IF b.turn = WHITE THEN 8 ELSE -8
        targets == IF piece_type_of(p) = PAWN
                   THEN (PawnAttacks(from, b.turn) \cup {from + fwd, from + 2 * fwd}) \cap SQUARES
                   ELSE IF piece_type_of(p) = KING
                        THEN attacks(b.pieces, from) \cup ({from + 2, from - 2} \cap SQUARES)
                        ELSE attacks(b.pieces, from)
    IN {Move(from, to, None) : to \in targets}
       \cup {Move(from, to, pr) :
                to \in {t \in targets : piece_type_of(p) = PAWN /\ square_rank(t) \in {0, 7}},
                pr \in PromotionPieces}

generate_legal_moves(b) ==
    UNION {{m \in Candidates(b, from) : is_legal(b, m)} :
              from \in {sq \in SQUARES : b.pieces[sq] # EMPTY /\ color_of(b.pieces[sq]) = b.turn}}

(***************************************************************************)
(* Board.push and Board.pop.                                               *)
(***************************************************************************)
\* Board._board_state: what push saves and pop restores.
board_state(b) ==
    [pieces |-> b.pieces, turn |-> b.turn, castling_rights |-> b.castling_rights,
     ep_square |-> b.ep_square, halfmove_clock |-> b.halfmove_clock,
     fullmove_number |-> b.fullmove_number]

\* Board.is_zeroing: a pawn move or a capture resets the halfmove clock.
is_zeroing(b, m) ==
    \/ piece_type_of(b.pieces[m.from_square]) = PAWN
    \/ piece_type_of(b.pieces[m.to_square]) = PAWN
    \/ (b.pieces[m.to_square] # EMPTY /\ color_of(b.pieces[m.to_square]) # b.turn)

\* The castling rights after the move: moving from or onto a corner removes
\* that right, a king move removes both rights of its back rank.
RightsAfter(b, m) ==
    LET kept == clean_castling_rights(b) \ {m.from_square, m.to_square}
    IN IF piece_type_of(b.pieces[m.from_square]) = KING
       THEN {r \in kept : square_rank(r) # BackRankOf(b.turn)}
       ELSE kept

\* The en passant square after the move: set by a double pawn push only.
EpAfter(b, m) ==
    IF piece_type_of(b.pieces[m.from_square]) = PAWN
       /\ m.to_square - m.from_square = 16 /\ square_rank(m.from_square) = 1
    THEN m.from_square + 8
    ELSE IF piece_type_of(b.pieces[m.from_square]) = PAWN
            /\ m.to_square - m.from_square = -16 /\ square_rank(m.from_square) = 6
         THEN m.from_square - 8
         ELSE None

\* Board.push(move), for a pseudo-legal move.
push(b, move) ==
    LET m == to_chess960(b, move)
        castling == piece_type_of(b.pieces[m.from_square]) = KING
                    /\ b.pieces[m.to_square] # EMPTY
                    /\ color_of(b.pieces[m.to_square]) = b.turn
    IN [pieces |-> IF castling THEN PiecesAfterCastling(b, m) ELSE PiecesAfterPlain(b, m),
        turn |-> ~b.turn,
        castling_rights |-> RightsAfter(b, m),
        ep_square |-> EpAfter(b, m),
        halfmove_clock |-> IF is_zeroing(b, m) THEN 0 ELSE b.halfmove_clock + 1,
        fullmove_number |-> IF b.turn = BLACK THEN b.fullmove_number + 1
                                              ELSE b.fullmove_number,
        move_stack |-> Append(b.move_stack, from_chess960(b, m)),
        stack |-> Append(b.stack, board_state(b))]

\* pop that puts the pieces and the turn back but keeps the counters, the
\* rights and the en passant square of the position it leaves.
pop_pieces_only(b) ==
    LET saved == b.stack[Len(b.stack)]
    IN [pieces |-> saved.pieces,
        turn |-> saved.turn,
        castling_rights |-> b.castling_rights,
        ep_square |-> b.ep_square,
        halfmove_clock |-> b.halfmove_clock,
        fullmove_number |-> b.fullmove_number,
        move_stack |-> SubSeq(b.move_stack, 1, Len(b.move_stack) - 1),
        stack |-> SubSeq(b.stack, 1, Len(b.stack) - 1)]

\* Board.pop(): restores the state saved by the last push.
pop(b) ==
    LET saved == b.stack[Len(b.stack)]
    IN [pieces |-> saved.pieces,
        turn |-> saved.turn,
        castling_rights |-> saved.castling_rights,
        ep_square |-> saved.ep_square,
        halfmove_clock |-> saved.halfmove_clock,
        fullmove_number |-> saved.fullmove_number,
        move_stack |-> SubSeq(b.move_stack, 1, Len(b.move_stack) - 1),
        stack |-> SubSeq(b.stack, 1, Len(b.stack) - 1)]

(***************************************************************************)
(* Board.fen(): the position identifier.                                   *)
(***************************************************************************)
Symbols == <<"P", "N", "B", "R", "Q", "K", "?", "?", "p", "n", "b", "r", "q", "k">>

Digits == <<"1", "2", "3", "4", "5", "6", "7", "8">>

\* One rank of Board.board_fen: piece letters, runs of empty squares as digits.
RECURSIVE RankFen(_, _, _, _)
RankFen(pieces, rank, file, empty) ==
    IF file > 7 THEN (IF empty > 0 THEN <<Digits[empty]>> ELSE <<>>)
    ELSE IF pieces[square(file, rank)] = EMPTY
         THEN RankFen(pieces, rank, file + 1, empty + 1)
         ELSE (IF empty > 0 THEN <<Digits[empty]>> ELSE <<>>)
              \o <<Symbols[pieces[square(file, rank)]]>>
              \o RankFen(pieces, rank, file + 1, 0)

board_fen(pieces) == [i \in 1 .. 8 |-> RankFen(pieces, 8 - i, 0, 0)]

\* Board.castling_xfen: K, Q, k, q for the cleaned rights.
castling_xfen(b) ==
    LET rights == clean_castling_rights(b)
    IN (IF H1 \in rights THEN <<"K">> ELSE <<>>) \o (IF A1 \in rights THEN <<"Q">> ELSE <<>>)
       \o (IF H8 \in rights THEN <<"k">> ELSE <<>>) \o (IF A8 \in rights THEN <<"q">> ELSE <<>>)

\* Board.has_legal_en_passant: the en passant square appears in the FEN only
\* when a legal en passant capture exists.
has_legal_en_passant(b) ==
    /\ b.ep_square # None
    /\ \E from \in PawnAttacks(b.ep_square, ~b.turn) :
          /\ b.pieces[from] = Piece(PAWN, b.turn)
          /\ is_legal(b, Move(from, b.ep_square, None))

fen(b) ==
    <<board_fen(b.pieces),
      IF b.turn = WHITE THEN "w" ELSE "b",
      castling_xfen(b),
      IF has_legal_en_passant(b) THEN b.ep_square ELSE None,
      b.halfmove_clock,
      b.fullmove_number>>

(***************************************************************************)
(* Window geometry and input events.                                       *)
(***************************************************************************)
BOARD_SIZE == 640
SQUARE_SIZE == BOARD_SIZE \div 8

\* get_square_under_mouse: the square under a pixel, None outside the board.
get_square_under_mouse(pos) ==
    IF pos[1] < 0 \/ pos[1] >= BOARD_SIZE \/ pos[2] < 0 \/ pos[2] >= BOARD_SIZE
    THEN None
    ELSE square(pos[1] \div SQUARE_SIZE, 7 - (pos[2] \div SQUARE_SIZE))

\* The pixel at the centre of a square, as draw_board lays the board out.
Centre(sq) ==
    <<square_file(sq) * SQUARE_SIZE + SQUARE_SIZE \div 2,
      (7 - square_rank(sq)) * SQUARE_SIZE + SQUARE_SIZE \div 2>>

\* prompt_promotion: the four option rectangles in the side panel, in the
\* order q, r, b, n.
options == <<"q", "r", "b", "n">>

OptionRect(i) ==
    [x |-> BOARD_SIZE + 20, y |-> 40 + (i - 1) * (SQUARE_SIZE \div 2 + 10),
     w |-> SQUARE_SIZE \div 2, h |-> SQUARE_SIZE \div 2]

\* pygame.Rect.collidepoint.
collidepoint(rect, pos) ==
    /\ rect.x <= pos[1] /\ pos[1] < rect.x + rect.w
    /\ rect.y <= pos[2] /\ pos[2] < rect.y + rect.h

\* The rectangles taken 50 pixels high, so that they fill the column: a click
\* between two options chooses the upper one.
OptionAt_gaps_filled(pos) ==
    IF \E i \in 1 .. 4 : collidepoint([OptionRect(i) EXCEPT !.h = SQUARE_SIZE \div 2 + 10], pos)
    THEN options[CHOOSE i \in 1 .. 4 :
                    collidepoint([OptionRect(i) EXCEPT !.h = SQUARE_SIZE \div 2 + 10], pos)]
    ELSE "none"

\* The option whose rectangle holds the pixel, or None.
OptionAt(pos) ==
    IF \E i \in 1 .. 4 : collidepoint(OptionRect(i), pos)
    THEN options[CHOOSE i \in 1 .. 4 : collidepoint(OptionRect(i), pos)]
    ELSE "none"

\* prom_map without its entries: every choice gives the default, a queen.
prom_map_default_only(piece) == QUEEN

\* prom_map.get(prom, chess.QUEEN).
prom_map(piece) ==
    CASE piece = "q" -> QUEEN
      [] piece = "r" -> ROOK
      [] piece = "b" -> BISHOP
      [] piece = "n" -> KNIGHT
      [] OTHER -> QUEEN

\* str.lower() on the key's text.
lower(unicode) ==
    CASE unicode = "Q" -> "q"
      [] unicode = "R" -> "r"
      [] unicode = "B" -> "b"
      [] unicode = "N" -> "n"
      [] OTHER -> unicode

\* Key presses: the key code and the text it produces.
Key(key, unicode) == [key |-> key, unicode |-> unicode]

Keys == {Key("K_u", "u"), Key("K_ESCAPE", "esc"), Key("K_q", "q"), Key("K_r", "R"),
         Key("K_b", "b"), Key("K_n", "n"), Key("K_x", "x")}

NoEvent == [type |-> "NONE", key |-> "NONE"]

(***************************************************************************)
(* The evaluation: win rates are kept in units of 1/600.                   *)
(***************************************************************************)
WinrateScale == 600
CpBand == 300

NoFen == <<>>

Cp(c) == [kind |-> "cp", value |-> c]

Mate(n) == [kind |-> "mate", value |-> n]

\* chess.engine.PovScore: a score relative to the side to move.
PovScore(relative, turn) == [relative |-> relative, turn |-> turn]

\* What engine.analyse does: it raises, or returns an info with or without a
\* score.
Info(status, rel, turn) == [status |-> status, score |-> PovScore(rel, turn)]

NoInfo == Info("none", Cp(0), WHITE)

Raised == Info("raise", Cp(0), WHITE)

NoScore == Info("no score", Cp(0), WHITE)

\* winrate_of without the clamp of line 120.
winrate_of_unclamped(result) ==
    IF result.status = "no score" THEN WinrateScale \div 2
    ELSE IF result.score.relative.kind = "mate"
         THEN (IF result.score.relative.value > 0 THEN WinrateScale ELSE 0)
         ELSE result.score.relative.value + CpBand

\* Lines 109-120: the win rate derived from info.get("score").
winrate_of(result) ==
    IF result.status = "no score" THEN WinrateScale \div 2
    ELSE LET rel == result.score.relative
         IN IF rel.kind = "mate"
            THEN (IF rel.value > 0 THEN WinrateScale ELSE 0)
            ELSE LET raw == rel.value + CpBand
                     capped == IF raw < WinrateScale THEN raw ELSE WinrateScale
                 IN IF capped > 0 THEN capped ELSE 0

(***************************************************************************)
(* Bounds of the model and the inputs it enumerates.                       *)
(***************************************************************************)
\* Longest move history explored.
MaxPlies == 3

\* Largest centipawn magnitude and mate distance the engine reports.
MaxCp == 400
MaxMate == 2

\* Squares the user clicks: e2 e4 d7 d5 d8 and the panel right of the board.
E2 == square(4, 1)
E4 == square(4, 3)
D5 == square(3, 4)
D7 == square(3, 6)

ClickSquares == {E2, E4, D5, D7, D8}

PanelPoints == {<<BOARD_SIZE + 40, 60>>, <<BOARD_SIZE + 40, 110>>, <<BOARD_SIZE + 40, 160>>,
                <<BOARD_SIZE + 40, 210>>, <<BOARD_SIZE + 40, 85>>}

ClickPoints == {Centre(sq) : sq \in ClickSquares} \cup PanelPoints

SampleScores == {Cp(0), Cp(120), Mate(1), Mate(-1)}

AllScores == {Cp(c) : c \in -MaxCp .. MaxCp} \cup {Mate(n) : n \in -MaxMate .. MaxMate}

(***************************************************************************)
(* The program state.                                                      *)
(***************************************************************************)
VARIABLES
    board,            \* chess.Board: placement, turn, rights, counters, stacks
    selected_square,  \* the selected origin square, or None
    legal_moves,      \* the legal moves stored when the square was selected
    move_stack,       \* the application's move history
    engine,           \* "None", "running", "quit" or "quit failed"
    last_eval_fen,    \* _last_eval_fen: the position identifier last evaluated
    last_winrate,     \* _last_winrate, in units of 1/600
    info,             \* what the last engine.analyse call returned or raised
    running,          \* the main loop's flag
    event,            \* the event being handled: its type and key
    made,             \* the result of the last try_make_move call: "True", "False"
    from_sq,          \* try_make_move's arguments while the prompt waits
    to_sq,
    prom,             \* try_make_move's local prom: what prompt_promotion returned
                      \* to the call that has just ended, "none" otherwise
    pc,               \* "frame", "events", "prompt", "shutdown", "exited", "crashed"
    evals,            \* history: compute_winrate calls since the board changed (0, 1, 2)
    calls,            \* history: engine.analyse calls since the board changed
    snapshots         \* history: position identifier and move history before
                      \* each move that is still on the history

vars == <<board, selected_square, legal_moves, move_stack, engine, last_eval_fen,
          last_winrate, info, running, event, made, from_sq, to_sq, prom, pc,
          evals, calls, snapshots>>

Snapshot(b, ms) == [fen |-> fen(b), move_stack |-> ms]

\* Module state after start-up: lines 70-73, 76-92 and 95-96.
Constructed(eng) ==
    /\ board = Board
    /\ selected_square = None
    /\ legal_moves = {}
    /\ move_stack = <<>>
    /\ engine = eng
    /\ last_eval_fen = NoFen
    /\ last_winrate = WinrateScale \div 2
    /\ info = NoInfo
    /\ running = TRUE
    /\ event = NoEvent
    /\ made = "unset"
    /\ from_sq = None
    /\ to_sq = None
    /\ prom = "none"
    /\ pc = "frame"
    /\ evals = 0
    /\ calls = 0
    /\ snapshots = <<>>

Init == \E eng \in {"None", "running"} : Constructed(eng)

(***************************************************************************)
(* compute_winrate and the top of the main loop.                           *)
(***************************************************************************)
\* compute_winrate whose except branch (lines 123-127) does not record the
\* position as evaluated.
compute_winrate_forgetful(current, eng, cached_fen, cached_winrate, result) ==
    IF eng = "None"
    THEN [fen |-> current, winrate |-> WinrateScale \div 2, called |-> FALSE]
    ELSE IF current = cached_fen
         THEN [fen |-> cached_fen, winrate |-> cached_winrate, called |-> FALSE]
         ELSE IF result = Raised
              THEN [fen |-> cached_fen, winrate |-> WinrateScale \div 2, called |-> TRUE]
              ELSE [fen |-> current, winrate |-> winrate_of(result), called |-> TRUE]

\* compute_winrate whose except branch keeps the previous win rate.
compute_winrate_stale(current, eng, cached_fen, cached_winrate, result) ==
    IF eng = "None"
    THEN [fen |-> current, winrate |-> WinrateScale \div 2, called |-> FALSE]
    ELSE IF current = cached_fen
         THEN [fen |-> cached_fen, winrate |-> cached_winrate, called |-> FALSE]
         ELSE IF result = Raised
              THEN [fen |-> current, winrate |-> cached_winrate, called |-> TRUE]
              ELSE [fen |-> current, winrate |-> winrate_of(result), called |-> TRUE]

\* compute_winrate on the position identifier `current`, the engine
\* answering `result` if it is asked: the new cache, the value returned, and
\* whether engine.analyse was called.
compute_winrate(current, eng, cached_fen, cached_winrate, result) ==
    IF eng = "None"
    THEN [fen |-> current, winrate |-> WinrateScale \div 2, called |-> FALSE]
    ELSE IF current = cached_fen
         THEN [fen |-> cached_fen, winrate |-> cached_winrate, called |-> FALSE]
         ELSE IF result = Raised
              THEN [fen |-> current, winrate |-> WinrateScale \div 2, called |-> TRUE]
              ELSE [fen |-> current, winrate |-> winrate_of(result), called |-> TRUE]

\* What engine.analyse may answer with scores drawn from `scores`.
Results(scores) == {Raised, NoScore} \cup {Info("score", s, board.turn) : s \in scores}

\* One pass of the main loop up to the event loop: the previous batch of
\* events is over, the board is drawn and the win rate computed.  The
\* engine's answer is drawn only when compute_winrate asks the engine.
Frame(scores) ==
    /\ pc \in {"frame", "events"}
    /\ running
    /\ LET current == fen(board)
       IN \E result \in IF engine # "None" /\ current # last_eval_fen
                        THEN Results(scores) ELSE {NoInfo} :
             LET r == compute_winrate(current, engine, last_eval_fen, last_winrate, result)
             IN /\ last_eval_fen' = r.fen
                /\ last_winrate' = r.winrate
                /\ info' = IF r.called THEN result ELSE info
                /\ calls' = IF r.called /\ calls < 2 THEN calls + 1 ELSE calls
    /\ evals' = IF evals < 2 THEN evals + 1 ELSE evals
    /\ event' = NoEvent
    /\ prom' = "none"
    /\ pc' = "events"
    /\ UNCHANGED <<board, selected_square, legal_moves, move_stack, engine, running,
                   made, from_sq, to_sq, snapshots>>

(***************************************************************************)
(* try_make_move and the event handlers.                                   *)
(***************************************************************************)
\* apply_move without the test of line 247: any move of a piece of the side
\* to move that does not take a king is pushed.
apply_move_unchecked(b, ms, move) ==
    IF /\ color_of(b.pieces[move.from_square]) = b.turn
       /\ piece_type_of(b.pieces[move.to_square]) # KING
       /\ move.to_square # move.from_square
    THEN [made |-> "True", board |-> push(b, move), move_stack |-> Append(ms, move)]
    ELSE [made |-> "False", board |-> b, move_stack |-> ms]

\* Line 249 moved out of the if: every attempted move is recorded in the
\* history, pushed or not.
apply_move_always_recorded(b, ms, move) ==
    IF is_legal(b, move)
    THEN [made |-> "True", board |-> push(b, move), move_stack |-> Append(ms, move)]
    ELSE [made |-> "False", board |-> b, move_stack |-> Append(ms, move)]

\* Line 249 left out: the move is pushed but not recorded in the history.
apply_move_unrecorded(b, ms, move) ==
    IF is_legal(b, move)
    THEN [made |-> "True", board |-> push(b, move), move_stack |-> ms]
    ELSE [made |-> "False", board |-> b, move_stack |-> ms]

\* Lines 247-251: the move is pushed and recorded only if it is legal.
apply_move(b, ms, move) ==
    IF is_legal(b, move)
    THEN [made |-> "True", board |-> push(b, move), move_stack |-> Append(ms, move)]
    ELSE [made |-> "False", board |-> b, move_stack |-> ms]

\* Line 239: the promotion prompt is shown for a pawn and a first or last rank.
needs_prompt(b, from, to) ==
    piece_type_of(piece_at(b, from)) = PAWN /\ square_rank(to) \in {0, 7}

\* Lines 290-292 left out: the cache survives the move.
cache_kept_after_attempt(was_made, cached_fen) == cached_fen

\* Lines 290-292: a move that was made clears the cached position identifier.
cache_after_attempt(was_made, cached_fen) == IF was_made = "True" THEN NoFen ELSE cached_fen

\* Lines 288-289 left out: the selection survives the attempt.
AfterAttempt_selection_kept(r) ==
    /\ board' = r.board
    /\ move_stack' = r.move_stack
    /\ made' = r.made
    /\ UNCHANGED <<selected_square, legal_moves>>
    /\ last_eval_fen' = cache_after_attempt(r.made, last_eval_fen)
    /\ evals' = IF r.made = "True" THEN 0 ELSE evals
    /\ calls' = IF r.made = "True" THEN 0 ELSE calls
    /\ snapshots' = IF r.made = "True" THEN Append(snapshots, Snapshot(board, move_stack))
                              ELSE snapshots
    /\ from_sq' = None
    /\ to_sq' = None
    /\ pc' = "events"

\* Lines 287-292 after try_make_move has returned: the selection is cleared
\* and, if the move was made, so is the evaluation cache.
AfterAttempt(r) ==
    /\ board' = r.board
    /\ move_stack' = r.move_stack
    /\ made' = r.made
    /\ selected_square' = None
    /\ legal_moves' = {}
    /\ last_eval_fen' = cache_after_attempt(r.made, last_eval_fen)
    /\ evals' = IF r.made = "True" THEN 0 ELSE evals
    /\ calls' = IF r.made = "True" THEN 0 ELSE calls
    /\ snapshots' = IF r.made = "True" THEN Append(snapshots, Snapshot(board, move_stack))
                              ELSE snapshots
    /\ from_sq' = None
    /\ to_sq' = None
    /\ pc' = "events"

\* QUIT in the main loop: the loop ends.
Quit ==
    /\ pc = "events"
    /\ event' = [type |-> "QUIT", key |-> "NONE"]
    /\ running' = FALSE
    /\ prom' = "none"
    /\ pc' = "shutdown"
    /\ UNCHANGED <<board, selected_square, legal_moves, move_stack, engine,
                   last_eval_fen, last_winrate, info, made, from_sq, to_sq, evals,
                   calls, snapshots>>

\* Line 268 without its test of the move history.
undo_requested_unguarded(k, ms) == k.key = "K_u"

\* Line 268: the undo is taken for the key u and a non-empty move history.
undo_requested(k, ms) == k.key = "K_u" /\ ms # <<>>

\* KEYDOWN in the main loop: u undoes, ESC ends the loop, other keys do
\* nothing.  board.pop() raises IndexError on an empty board stack, which
\* nothing catches.
KeyDown(k) ==
    /\ pc = "events"
    /\ event' = [type |-> "KEYDOWN", key |-> k.key]
    /\ IF undo_requested(k, move_stack)
       THEN IF board.stack = <<>>
            THEN /\ pc' = "crashed"
                 /\ UNCHANGED <<board, move_stack, last_eval_fen, evals, calls,
                                snapshots, running>>
            ELSE /\ board' = pop(board)
                 /\ move_stack' = SubSeq(move_stack, 1, Len(move_stack) - 1)
                 /\ last_eval_fen' = NoFen
                 /\ evals' = 0
                 /\ calls' = 0
                 /\ snapshots' = SubSeq(snapshots, 1, Len(snapshots) - 1)
                 /\ UNCHANGED <<running, pc>>
       ELSE /\ running' = (k.key # "K_ESCAPE")
            /\ pc' = IF k.key = "K_ESCAPE" THEN "shutdown" ELSE pc
            /\ UNCHANGED <<board, move_stack, last_eval_fen, evals, calls, snapshots>>
    /\ prom' = "none"
    /\ UNCHANGED <<selected_square, legal_moves, engine, last_winrate, info, made,
                   from_sq, to_sq>>

\* Line 283 without its test of the colour: any piece can be selected.
selectable_any_piece(b, sq) == piece_at(b, sq) # EMPTY

\* Line 283: the square holds a piece of the side to move.
selectable(b, sq) == piece_at(b, sq) # EMPTY /\ color_of(piece_at(b, sq)) = b.turn

\* MOUSEBUTTONDOWN in the main loop.
MouseDown(pos, limit) ==
    /\ pc = "events"
    /\ event' = [type |-> "MOUSEBUTTONDOWN", key |-> "NONE"]
    /\ LET sq == get_square_under_mouse(pos)
       IN IF sq = None
          THEN UNCHANGED <<board, selected_square, legal_moves, move_stack,
                           last_eval_fen, made, from_sq, to_sq, pc, evals, calls,
                           snapshots>>
          ELSE IF selected_square = None
               THEN /\ IF selectable(board, sq)
                       THEN /\ selected_square' = sq
                            /\ legal_moves' = generate_legal_moves(board)
                       ELSE UNCHANGED <<selected_square, legal_moves>>
                    /\ UNCHANGED <<board, move_stack, last_eval_fen, made, from_sq,
                                   to_sq, pc, evals, calls, snapshots>>
               ELSE IF piece_at(board, selected_square) = EMPTY
                    THEN AfterAttempt([made |-> "False", board |-> board,
                                       move_stack |-> move_stack])
                    ELSE IF needs_prompt(board, selected_square, sq)
                         THEN /\ from_sq' = selected_square
                              /\ to_sq' = sq
                              /\ pc' = "prompt"
                              /\ UNCHANGED <<board, selected_square, legal_moves,
                                             move_stack, last_eval_fen, made, evals,
                                             calls, snapshots>>
                         ELSE /\ is_legal(board, Move(selected_square, sq, None))
                                    => Len(move_stack) < limit
                              /\ AfterAttempt(apply_move(board, move_stack,
                                                         Move(selected_square, sq, None)))
    /\ prom' = "none"
    /\ UNCHANGED <<engine, last_winrate, info, running>>

(***************************************************************************)
(* prompt_promotion's wait loop.                                           *)
(***************************************************************************)
\* The prompt returns `piece`, which try_make_move keeps as prom and goes on
\* from line 242.
PromptReturn(piece, limit) ==
    /\ is_legal(board, Move(from_sq, to_sq, prom_map(piece))) => Len(move_stack) < limit
    /\ prom' = piece
    /\ AfterAttempt(apply_move(board, move_stack, Move(from_sq, to_sq, prom_map(piece))))
    /\ UNCHANGED <<engine, last_winrate, info, running, event>>

\* A click on one of the four option rectangles chooses it.
PromptClick(pos, limit) ==
    /\ pc = "prompt"
    /\ OptionAt(pos) # "none"
    /\ PromptReturn(OptionAt(pos), limit)

\* The keys q, r, b, n (in either case) choose too.
PromptKey(k, limit) ==
    /\ pc = "prompt"
    /\ lower(k.unicode) \in {"q", "r", "b", "n"}
    /\ PromptReturn(lower(k.unicode), limit)

\* Every other click or key is dropped and the prompt keeps waiting.
PromptIgnore ==
    /\ pc = "prompt"
    /\ UNCHANGED vars

\* QUIT while the prompt waits: pygame.quit() and sys.exit() at once.
PromptQuit ==
    /\ pc = "prompt"
    /\ pc' = "exited"
    /\ UNCHANGED <<board, selected_square, legal_moves, move_stack, engine,
                   last_eval_fen, last_winrate, info, running, event, made, from_sq,
                   to_sq, prom, evals, calls, snapshots>>

(***************************************************************************)
(* Lines 296-303: the shutdown after the main loop.                        *)
(***************************************************************************)
Shutdown(quit_ok) ==
    /\ pc = "shutdown"
    /\ engine' = IF engine = "running"
                 THEN (IF quit_ok THEN "quit" ELSE "quit failed")
                 ELSE engine
    /\ pc' = "exited"
    /\ UNCHANGED <<board, selected_square, legal_moves, move_stack, last_eval_fen,
                   last_winrate, info, running, event, made, from_sq, to_sq, prom,
                   evals, calls, snapshots>>

\* The main specification: the program from start-up, the user clicking
\* ClickPoints, histories of at most MaxPlies moves.
Next ==
    \/ Frame(SampleScores)
    \/ Quit
    \/ \E k \in Keys : KeyDown(k)
    \/ \E pos \in ClickPoints : MouseDown(pos, MaxPlies)
    \/ \E pos \in ClickPoints : PromptClick(pos, MaxPlies)
    \/ \E k \in Keys : PromptKey(k, MaxPlies)
    \/ PromptIgnore
    \/ PromptQuit
    \/ \E quit_ok \in BOOLEAN : Shutdown(quit_ok)

Spec == Init /\ [][Next]_vars

(***************************************************************************)
(* Games in progress: the program after the user has played one of two     *)
(* eight-ply games through the handlers above, without an engine.  In the  *)
(* first White may capture en passant or castle, in the second White may   *)
(* promote by a push or by a capture.                                      *)
(***************************************************************************)
A2 == square(0, 1)
A4 == square(0, 3)
A5 == square(0, 4)
A6 == square(0, 5)
A7 == square(0, 6)
D6 == square(3, 5)
E5 == square(4, 4)
E7 == square(4, 6)
F3 == square(5, 2)
F6 == square(5, 5)
G5 == square(6, 4)
G7 == square(6, 6)
H2 == square(7, 1)
H4 == square(7, 3)
H6 == square(7, 5)
H7 == square(7, 6)

\* Moves a game may go beyond its eight plies.
MaxExtra == 2

\* 1.e4 a6 2.e5 a5 3.Nf3 a4 4.Be2 d5
CastleGame ==
    <<Move(E2, E4, None), Move(A7, A6, None), Move(E4, E5, None), Move(A6, A5, None),
      Move(G1, F3, None), Move(A5, A4, None), Move(F1, E2, None), Move(D7, D5, None)>>

\* 1.h4 g5 2.hxg5 h6 3.gxh6 Bg7 4.hxg7 Nf6
PromotionGame ==
    <<Move(H2, H4, None), Move(G7, G5, None), Move(H4, G5, None), Move(H7, H6, None),
      Move(G5, H6, None), Move(F8, G7, None), Move(H6, G7, None), Move(G8, F6, None)>>

Games == {CastleGame, PromotionGame}

GameLength == Len(CastleGame)

\* The board and history after the first n moves of a game were attempted.
RECURSIVE Played(_, _)
Played(game, n) ==
    IF n = 0 THEN [made |-> "unset", board |-> Board, move_stack |-> <<>>]
    ELSE apply_move(Played(game, n - 1).board, Played(game, n - 1).move_stack, game[n])

InitGames ==
    \E game \in Games :
        /\ board = Played(game, GameLength).board
        /\ move_stack = Played(game, GameLength).move_stack
        /\ made = Played(game, GameLength).made
        /\ snapshots = [i \in 1 .. GameLength |->
                           Snapshot(Played(game, i - 1).board, Played(game, i - 1).move_stack)]
        /\ selected_square = None
        /\ legal_moves = {}
        /\ engine = "None"
        /\ last_eval_fen = NoFen
        /\ last_winrate = WinrateScale \div 2
        /\ info = NoInfo
        /\ running = TRUE
        /\ event = [type |-> "MOUSEBUTTONDOWN", key |-> "NONE"]
        /\ from_sq = None
        /\ to_sq = None
        /\ prom = "none"
        /\ pc = "events"
        /\ evals = 0
        /\ calls = 0

GameClickSquares == {E1, G1, H1, E5, D6, G7, G8, H8}

GameClickPoints == {Centre(sq) : sq \in GameClickSquares} \cup PanelPoints

NextGames ==
    \/ Frame(SampleScores)
    \/ Quit
    \/ \E k \in Keys : KeyDown(k)
    \/ \E pos \in GameClickPoints : MouseDown(pos, GameLength + MaxExtra)
    \/ \E pos \in GameClickPoints : PromptClick(pos, GameLength + MaxExtra)
    \/ \E k \in Keys : PromptKey(k, GameLength + MaxExtra)
    \/ PromptIgnore
    \/ PromptQuit
    \/ \E quit_ok \in BOOLEAN : Shutdown(quit_ok)

SpecGames == InitGames /\ [][NextGames]_vars

(***************************************************************************)
(* The evaluation alone: the program at start-up, the engine answering     *)
(* with any score within the bounds.                                       *)
(***************************************************************************)
NextScore == Frame(AllScores)

SpecScore == Init /\ [][NextScore]_vars
(***************************************************************************)
(* Properties.                                                             *)
(***************************************************************************)
\* Steps, told apart by what they leave in the state.
UndoStep == Len(move_stack') < Len(move_stack)

UndoKeyStep == pc = "events" /\ event'.type = "KEYDOWN" /\ event'.key = "K_u"

FrameStep == pc \in {"frame", "events"} /\ pc' = "events" /\ event' = NoEvent

AttemptStep ==
    \/ pc = "prompt" /\ pc' = "events"
    \/ pc = "events" /\ pc' = "events" /\ event'.type = "MOUSEBUTTONDOWN"
       /\ selected_square # None /\ selected_square' = None

\* C1: a move attempt changes the board only for a move of the position's
\* legal-move set.  Every step that changes the board or the history, other
\* than an undo, reports success and appends exactly one move, which is one
\* of generate_legal_moves of the position before, and the board is that
\* position with this move pushed; an attempt that reports failure leaves the
\* board (so the side to move) and the history exactly as they were.
C1_OnlyLegalMovesApplied ==
    [][/\ ((board' # board \/ move_stack' # move_stack) /\ ~UndoStep) =>
              /\ made' = "True"
              /\ Len(move_stack') = Len(move_stack) + 1
              /\ SubSeq(move_stack', 1, Len(move_stack)) = move_stack
              /\ from_chess960(board, move_stack'[Len(move_stack')])
                    \in generate_legal_moves(board)
              /\ board' = push(board, move_stack'[Len(move_stack')])
       /\ (AttemptStep /\ made' = "False") =>
              /\ board' = board
              /\ move_stack' = move_stack]_vars

\* C1 witness: an attempt on a non-empty origin square was rejected and the
\* history is still empty.
C1_Witness ==
    /\ made = "False"
    /\ pc = "events"
    /\ event.type = "MOUSEBUTTONDOWN"
    /\ move_stack = <<>>
    /\ board = Board

\* C2: apply-then-undo is a round trip.  Every undo restores the position
\* identifier and the move history recorded just before the move it takes
\* back.
C2_ApplyUndoRoundTrip ==
    [][UndoStep =>
          /\ fen(board') = snapshots[Len(snapshots)].fen
          /\ move_stack' = snapshots[Len(snapshots)].move_stack]_vars

\* C2 witness: a ninth move was made in the castling game (en passant,
\* castling or another move) and taken back.
C2_Witness ==
    /\ event.key = "K_u"
    /\ move_stack = CastleGame
    /\ fen(board) = fen(Played(CastleGame, GameLength).board)

\* C3: an undo request on an empty history is a no-op: board, side to move
\* and history are unchanged and the event loop goes on.
C3_UndoOnEmptyHistoryIsNoOp ==
    [][(UndoKeyStep /\ move_stack = <<>>) =>
          /\ board' = board
          /\ move_stack' = move_stack
          /\ pc' = "events"
          /\ running' = running]_vars

\* C3 witness: u was pressed although no move was ever attempted.
C3_Witness ==
    /\ event.key = "K_u"
    /\ made = "unset"
    /\ move_stack = <<>>
    /\ pc = "events"

\* C4 (as claimed): every undo key press clears the selection, the stored
\* legal moves and the cached position identifier.
C4_UndoAlwaysClears ==
    [][UndoKeyStep =>
          /\ selected_square' = None
          /\ legal_moves' = {}
          /\ last_eval_fen' = NoFen]_vars

\* C5: every change of the board clears the cached position identifier, so a
\* cached identifier is always the identifier of the board as it is.
C5_CacheInvalidatedOnMutation ==
    [][/\ board' # board => last_eval_fen' = NoFen
       /\ last_eval_fen' # NoFen => last_eval_fen' = fen(board')]_vars

\* C5 witness: a move was made, evaluated by the engine, and taken back; the
\* cache is clear.
C5_Witness ==
    /\ event.key = "K_u"
    /\ made = "True"
    /\ move_stack = <<>>
    /\ info.status = "score"
    /\ info.score.turn = BLACK
    /\ last_eval_fen = NoFen

\* C6: compute_winrate is idempotent while the board is unchanged: a call
\* that is not the first since the board last changed returns the value of
\* the one before it and does not ask the engine, so the engine is asked at
\* most once per position.
C6_EvaluateIdempotent ==
    [][/\ (FrameStep /\ evals >= 1) =>
              /\ last_winrate' = last_winrate
              /\ last_eval_fen' = last_eval_fen
              /\ calls' = calls
       /\ calls' <= 1]_vars

\* C6 witness: the first query raised and a later cycle on the same board
\* did not query again.
C6_Witness ==
    /\ evals = 2
    /\ calls = 1
    /\ info = Raised

\* C7: the failure policy.  Without an engine, when engine.analyse raises and
\* when the result has no score, compute_winrate returns 0.5, records the
\* current position identifier, and the event loop goes on.
C7_FailurePolicy ==
    [][(FrameStep /\ (engine = "None"
                      \/ (calls' # calls /\ info'.status \in {"raise", "no score"}))) =>
          /\ last_winrate' = WinrateScale \div 2
          /\ last_eval_fen' = fen(board)
          /\ board' = board
          /\ running'
          /\ pc' = "events"]_vars

\* C7 witness: after a mate score on the first position a move was made and
\* the query for the new position raised.
C7_Witness ==
    /\ info = Raised
    /\ made = "True"
    /\ move_stack # <<>>
    /\ last_winrate = WinrateScale \div 2
    /\ last_eval_fen = fen(board)

\* C8 (as claimed): on every way out a running engine has been sent quit.
C8_EngineQuitOnEveryExit == pc = "exited" => engine # "running"

\* The mate favours White: the side to move mates and is White, or is mated
\* and is Black.
FavorsWhite(score) ==
    IF score.turn = WHITE THEN score.relative.value > 0 ELSE score.relative.value <= 0

\* C9 (as claimed): a mate score gives 1.0 exactly when the mate favours
\* White, whichever side is to move.
C9_WinrateIsWhites ==
    (info.status = "score" /\ info.score.relative.kind = "mate") =>
        (last_winrate = WinrateScale <=> FavorsWhite(info.score))

\* C10: score normalisation.  A centipawn score cp gives (cp + 300) / 600
\* clamped to [0, 1], a positive mate score 1.0, a zero or negative mate score
\* 0.0, and the stored win rate is always within [0, 1] (here in units of
\* 1/600).
C10_ScoreNormalisation ==
    /\ last_winrate >= 0
    /\ last_winrate <= 600
    /\ (info.status = "score" /\ info.score.relative.kind = "cp") =>
          LET cp == info.score.relative.value
          IN /\ cp <= -300 => last_winrate = 0
             /\ cp >= 300 => last_winrate = 600
             /\ (cp > -300 /\ cp < 300) => last_winrate = cp + 300
             /\ cp = 0 => 2 * last_winrate = 600
    /\ (info.status = "score" /\ info.score.relative.kind = "mate") =>
          /\ info.score.relative.value > 0 => last_winrate = 600
          /\ info.score.relative.value <= 0 => last_winrate = 0

\* C10 witness: the largest centipawn score was clamped to 1.0.
C10_Witness ==
    /\ info.status = "score"
    /\ info.score.relative = Cp(MaxCp)
    /\ last_winrate = 600

\* A click on the board square sq is handled by the main loop.
BoardClickStep(sq) ==
    /\ pc = "events"
    /\ event'.type = "MOUSEBUTTONDOWN"
    /\ \E pos \in {Centre(sq)} \cap (ClickPoints \cup GameClickPoints) :
           MouseDown(pos, Len(move_stack) + 1)

\* The promotion prompt returns and try_make_move runs to its end.
PromptReturnStep == pc = "prompt" /\ pc' = "events"

\* C11: the selection is cleared after every move attempt.  A click on a
\* board square while a square is selected either ends with no square
\* selected and no stored legal moves, or is waiting in the promotion prompt;
\* and when the prompt returns, the click ends in the same way, whether the
\* move was made or rejected.
C11_SelectionClearedAfterAttempt ==
    [][/\ (selected_square # None /\ \E sq \in ClickSquares \cup GameClickSquares : BoardClickStep(sq)) =>
              \/ pc' = "prompt"
              \/ selected_square' = None /\ legal_moves' = {} /\ made' \in {"True", "False"}
       /\ PromptReturnStep =>
              selected_square' = None /\ legal_moves' = {} /\ made' \in {"True", "False"}]_vars

\* C11 witness: after a move was made, a second attempt was rejected and the
\* selection is clear.
C11_Witness ==
    /\ made = "False"
    /\ event.type = "MOUSEBUTTONDOWN"
    /\ pc = "events"
    /\ move_stack # <<>>
    /\ selected_square = None
    /\ legal_moves = {}

\* try_make_move has returned True: a move was applied.
SuccessfulAttemptStep ==
    /\ made' = "True"
    /\ \/ PromptReturnStep
       \/ /\ selected_square # None
          /\ pc' = "events"
          /\ \E sq \in ClickSquares \cup GameClickSquares : BoardClickStep(sq)

\* The key u was pressed with a history to take back.
SuccessfulUndoStep == UndoKeyStep /\ move_stack # <<>>

\* C12: the lifecycle of the move history.  It is empty at start-up; each
\* successful move application appends exactly one entry, the move that was
\* pushed on the board; each successful undo removes exactly the last entry;
\* and no other step (a selection click, a rejected attempt, a click outside
\* the board, an evaluation, the prompt, the shutdown) changes it.
C12_HistoryLifecycle ==
    /\ move_stack = <<>>
    /\ [][/\ SuccessfulAttemptStep =>
                 /\ Len(move_stack') = Len(move_stack) + 1
                 /\ SubSeq(move_stack', 1, Len(move_stack)) = move_stack
                 /\ board' = push(board, move_stack'[Len(move_stack')])
          /\ SuccessfulUndoStep =>
                 /\ move_stack # <<>>
                 /\ move_stack' = SubSeq(move_stack, 1, Len(move_stack) - 1)
          /\ (~SuccessfulAttemptStep /\ ~SuccessfulUndoStep) =>
                 move_stack' = move_stack]_vars

\* C12 witness: the history grew to its bound and the last move was taken
\* back.
C12_Witness ==
    /\ event.key = "K_u"
    /\ made = "True"
    /\ Len(move_stack) = MaxPlies - 1
    /\ Len(snapshots) = MaxPlies - 1

\* C13: in the Idle state a click on a board square selects it if and only
\* if it holds a piece of the side to move, and then stores the legal moves
\* of the position on the board; a click on an empty square or on a piece of
\* the other side leaves no square selected; and in both cases the board, the
\* history and the evaluation cache are as before.
C13_IdleClickSelects ==
    [][\A sq \in ClickSquares \cup GameClickSquares :
          (selected_square = None /\ BoardClickStep(sq)) =>
              /\ (piece_at(board, sq) # EMPTY /\ color_of(piece_at(board, sq)) = board.turn) =>
                     /\ selected_square' = sq
                     /\ legal_moves' = generate_legal_moves(board)
              /\ (piece_at(board, sq) = EMPTY \/ color_of(piece_at(board, sq)) # board.turn) =>
                     /\ selected_square' = None
                     /\ legal_moves' = legal_moves
              /\ board' = board
              /\ move_stack' = move_stack
              /\ last_eval_fen' = last_eval_fen
              /\ last_winrate' = last_winrate
              /\ pc' = "events"]_vars

\* C13 witness: after one move, with Black to move, the black pawn on d7 was
\* clicked and is selected with Black's legal moves stored.
C13_Witness ==
    /\ Len(move_stack) = 1
    /\ board.turn = BLACK
    /\ selected_square = D7
    /\ legal_moves = generate_legal_moves(board)
    /\ Move(D7, D5, None) \in legal_moves
    /\ event.type = "MOUSEBUTTONDOWN"

\* C14 (as claimed): whenever a square is selected, it holds a piece of the
\* side to move and the stored legal moves are the legal moves of the
\* position on the board.
C14_SelectionConsistentWithBoard ==
    selected_square # None =>
        /\ piece_at(board, selected_square) # EMPTY
        /\ color_of(piece_at(board, selected_square)) = board.turn
        /\ legal_moves = generate_legal_moves(board)

\* The last rank of a pawn of the colour of piece p.
TerminalRank(p) == IF color_of(p) = WHITE THEN 7 ELSE 0

\* C15 (as claimed): the promotion prompt is waiting only for a pawn that
\* reaches the terminal rank of its colour, that is, for an attempt that is
\* a legal promotion for at least one of the four pieces.
C15_PromptOnlyForPromotion ==
    pc = "prompt" =>
        /\ piece_type_of(piece_at(board, from_sq)) = PAWN
        /\ square_rank(to_sq) = TerminalRank(piece_at(board, from_sq))
        /\ \E p \in PromotionPieces : is_legal(board, Move(from_sq, to_sq, p))

\* The piece kind whose letter is the choice.
ChosenKind(piece) == CHOOSE k \in PromotionPieces : Symbols[k + BlackOffset] = piece

\* C16: every applied move that takes a pawn to its terminal rank is applied
\* when the promotion prompt returns, and its promotion piece is the kind
\* chosen in the prompt, one of queen, rook, bishop, knight, which is the
\* piece that then stands on the destination square; every other applied
\* move carries no promotion piece.
C16_PromotionCarriesChoice ==
    [][Len(move_stack') = Len(move_stack) + 1 =>
          LET m == move_stack'[Len(move_stack')]
              p == piece_at(board, m.from_square)
          IN IF piece_type_of(p) = PAWN /\ square_rank(m.to_square) = TerminalRank(p)
             THEN /\ PromptReturnStep
                  /\ prom' \in {"q", "r", "b", "n"}
                  /\ m.promotion \in PromotionPieces
                  /\ m.promotion = ChosenKind(prom')
                  /\ piece_type_of(piece_at(board', m.to_square)) = ChosenKind(prom')
             ELSE m.promotion = None]_vars

\* C16 witness: in the promotion game the pawn on g7 took on h8 and became a
\* knight.
C16_Witness ==
    /\ Len(move_stack) = GameLength + 1
    /\ move_stack[GameLength + 1] = Move(G7, H8, KNIGHT)
    /\ piece_at(board, H8) = KNIGHT
    /\ prom = "n"
    /\ made = "True"

\* The pixel lies in none of the four option rectangles of lines 198-201.
OutsideOptions(pos) ==
    \A i \in 0 .. 3 :
        \/ pos[1] < 660 \/ pos[1] >= 700
        \/ pos[2] < 40 + 50 * i \/ pos[2] >= 80 + 50 * i

\* C17: while the promotion prompt waits the controller is blocked.  As long
\* as the prompt goes on waiting, the board, the history, the selection and
\* the evaluation cache stay as they are; no handler of the main loop runs;
\* a click outside the four option rectangles and a key other than q, r, b,
\* n (the undo key among them) end nothing; and the prompt ends only by
\* returning one of q, r, b, n or by ending the program, which leaves the
\* board and the history as they are.
C17_PromptBlocksController ==
    [][pc = "prompt" =>
          /\ pc' \in {"prompt", "events", "exited"}
          /\ pc' = "prompt" =>
                 /\ board' = board
                 /\ move_stack' = move_stack
                 /\ selected_square' = selected_square
                 /\ legal_moves' = legal_moves
                 /\ last_eval_fen' = last_eval_fen
                 /\ last_winrate' = last_winrate
          /\ pc' = "events" => prom' \in {"q", "r", "b", "n"}
          /\ pc' = "exited" =>
                 /\ board' = board
                 /\ move_stack' = move_stack
                 /\ last_eval_fen' = last_eval_fen
          /\ \A pos \in ClickPoints \cup GameClickPoints :
                 OutsideOptions(pos) => ~PromptClick(pos, Len(move_stack) + 1)
          /\ \A k \in Keys :
                 k.unicode \notin {"q", "r", "b", "n", "Q", "R", "B", "N"}
                     => ~PromptKey(k, Len(move_stack) + 1)
          /\ \A k \in Keys : ~KeyDown(k)
          /\ \A pos \in ClickPoints \cup GameClickPoints :
                 ~MouseDown(pos, Len(move_stack) + 1)
          /\ ~Frame(SampleScores)]_vars

\* C17 witness: in the promotion game the pawn on g7 was clicked onto g8 and
\* the prompt is waiting, the pawn still selected.
C17_Witness ==
    /\ pc = "prompt"
    /\ from_sq = G7
    /\ to_sq = G8
    /\ selected_square = G7
    /\ Len(move_stack) = GameLength

\* C18 (as claimed): the application's history and the board's own move
\* stack hold the same moves in the same order, and the board's stack of
\* saved states has the same length.
C18_HistoryEqualsBoardStack ==
    /\ move_stack = board.move_stack
    /\ Len(board.stack) = Len(move_stack)

\* C18 (amended): the application's history and the board's stacks always
\* have the same length, so an undo permitted by a non-empty history never
\* pops an empty board stack; and each entry of the history is the board's
\* entry up to the notation of castling: the board records a castling move as
\* the king's move of two squares, the history keeps the move as it was
\* clicked, which is the king's move onto its rook when the user castled by
\* clicking the rook.
C18_LockstepUpToCastling ==
    /\ [](/\ Len(move_stack) = Len(board.move_stack)
          /\ Len(move_stack) = Len(board.stack)
          /\ pc # "crashed")
    /\ [][Len(move_stack') = Len(move_stack) + 1 =>
              LET clicked == move_stack'[Len(move_stack')]
                  recorded == board'.move_stack[Len(move_stack')]
              IN /\ SubSeq(board'.move_stack, 1, Len(move_stack)) = board.move_stack
                 /\ \/ recorded = clicked
                    \/ /\ is_castling(board, clicked)
                       /\ piece_at(board, clicked.to_square) = Piece(ROOK, board.turn)
                       /\ recorded.from_square = clicked.from_square
                       /\ recorded.promotion = None
                       /\ clicked.promotion = None
                       /\ square_rank(recorded.to_square) = square_rank(clicked.from_square)
                       /\ square_file(recorded.to_square) =
                              (IF square_file(clicked.to_square) = 7 THEN 6 ELSE 2)]_vars

\* C18 witness: in the castling game White castled by clicking the king and
\* then the rook on h1; the history keeps e1h1, the board recorded e1g1.
C18_Witness ==
    /\ Len(move_stack) = GameLength + 1
    /\ move_stack[GameLength + 1] = Move(E1, H1, None)
    /\ board.move_stack[GameLength + 1] = Move(E1, G1, None)
    /\ piece_at(board, G1) = Piece(KING, WHITE)
    /\ piece_at(board, F1) = Piece(ROOK, WHITE)
====
